---- MODULE Spec2Model ----
(***************************************************************************)
(* Model of the package pyxem.detectors (src/pyxem/detectors/__init__.py). *)
(* The package body runs three "from .<submodule> import <Class>"          *)
(* statements and binds __all__.  Its only state is the package namespace; *)
(* callers read it by attribute lookup (pyxem.detectors.<name>) and read   *)
(* the exported-name list (pyxem.detectors.__all__).                       *)
(***************************************************************************)
EXTENDS Naturals, Sequences, FiniteSets

\* Number of concurrent callers reading the package.
NumReaders == 2

Readers == 1..NumReaders

\* Names callers ask for: the three class names, two of the submodule names,
\* "__all__", and names the package never binds.
Names ==
  { "GenericFlatDetector", "Medipix256x256Detector", "Medipix515x515Detector",
    "medipix_256x256", "medipix_515x515",
    "__all__", "generic_flat", "nonexistent_detector" }

\* ---------------------------------------------------------------- values
ClassObj(module, cls) == [kind |-> "class", id |-> cls, home |-> module, items |-> <<>>]
ModuleObj(module)     == [kind |-> "module", id |-> module, home |-> module, items |-> <<>>]
ListObj(seq)          == [kind |-> "list", id |-> "", home |-> "", items |-> seq]
AttributeError(name)  == [kind |-> "AttributeError", id |-> name, home |-> "", items |-> <<>>]
StrObj(text)          == [kind |-> "str", id |-> text, home |-> "", items |-> <<>>]
NoValue               == [kind |-> "None", id |-> "", home |-> "", items |-> <<>>]

\* ------------------------------------------------------ namespace building
EmptyNamespace == [n \in {} |-> NoValue]

\* name = value at module level
Bind(ns, name, value) ==
  [n \in (DOMAIN ns) \cup {name} |-> IF n = name THEN value ELSE ns[n]]

\* "from .<module> import <cls>": loading the submodule binds it in the
\* parent package, then the imported class is bound under its own name.
ImportFrom(ns, module, cls) ==
  Bind(Bind(ns, module, ModuleObj(module)), cls, ClassObj(module, cls))

\* Variant: an entry of __all__ repeated in place of the last one.
all_names_duplicated ==
  << "GenericFlatDetector", "Medipix256x256Detector", "Medipix256x256Detector" >>

\* Variant: an imported class left out of __all__.
all_names_short ==
  << "GenericFlatDetector", "Medipix256x256Detector" >>

\* __all__ = [ ... ]   (lines 26-30)
all_names ==
  << "GenericFlatDetector", "Medipix256x256Detector", "Medipix515x515Detector" >>

\* The namespace once the package body (lines 19-30) has run: the docstring,
\* the three imports in order, then __all__.
PackageNamespace ==
  Bind(
    ImportFrom(
      ImportFrom(
        ImportFrom(
          Bind(EmptyNamespace, "__doc__", StrObj("Detectors defined fro pyFAI integration")),
          "generic_flat_detector", "GenericFlatDetector"),
        "medipix_256x256", "Medipix256x256Detector"),
      "medipix_515x515", "Medipix515x515Detector"),
    "__all__", ListObj(all_names))

\* ------------------------------------------------------------------ state
\* namespace: the package's __dict__
\* pc:        per reader, "idle" or "calling"
\* req:       per reader, the request in progress
\* last:      per reader, the last completed request and its result
VARIABLES namespace, pc, req, last

vars == << namespace, pc, req, last >>

NoRequest == [op |-> "none", name |-> ""]
GetReq(name) == [op |-> "get", name |-> name]
ListReq == [op |-> "list", name |-> "__all__"]

\* Variant: a missing name silently falls back to a default detector.
LookupDefault(ns, name) ==
  IF name \in DOMAIN ns THEN ns[name] ELSE ns["GenericFlatDetector"]

\* Attribute lookup on the package: the package defines no module-level
\* __getattr__, so a name missing from the namespace raises at once.
Lookup(ns, name) ==
  IF name \in DOMAIN ns THEN ns[name] ELSE AttributeError(name)

Init ==
  /\ namespace = PackageNamespace
  /\ pc = [r \in Readers |-> "idle"]
  /\ req = [r \in Readers |-> NoRequest]
  /\ last = [r \in Readers |-> [req |-> NoRequest, res |-> NoValue]]

\* Variant: the lookup interns the requested name (setdefault instead of get).
CallGetSetdefault(r, name) ==
  /\ pc[r] = "idle"
  /\ pc' = [pc EXCEPT ![r] = "calling"]
  /\ req' = [req EXCEPT ![r] = GetReq(name)]
  /\ namespace' = IF name \in DOMAIN namespace THEN namespace
                                                ELSE Bind(namespace, name, NoValue)
  /\ UNCHANGED last

\* A reader starts pyxem.detectors.<name>
CallGet(r, name) ==
  /\ pc[r] = "idle"
  /\ pc' = [pc EXCEPT ![r] = "calling"]
  /\ req' = [req EXCEPT ![r] = GetReq(name)]
  /\ UNCHANGED << namespace, last >>

\* A reader starts reading pyxem.detectors.__all__
CallList(r) ==
  /\ pc[r] = "idle"
  /\ pc' = [pc EXCEPT ![r] = "calling"]
  /\ req' = [req EXCEPT ![r] = ListReq]
  /\ UNCHANGED << namespace, last >>

\* Variant: the binding is consumed by the read (pop instead of get).
ReturnPop(r) ==
  /\ pc[r] = "calling"
  /\ last' = [last EXCEPT ![r] = [req |-> req[r], res |-> Lookup(namespace, req[r].name)]]
  /\ pc' = [pc EXCEPT ![r] = "idle"]
  /\ req' = [req EXCEPT ![r] = NoRequest]
  /\ namespace' = [n \in (DOMAIN namespace) \ {req[r].name} |-> namespace[n]]

\* Variant: the lookup holds a lock, so it waits while another reader is calling.
ReturnLocked(r) ==
  /\ pc[r] = "calling"
  /\ \A q \in Readers \ {r} : pc[q] = "idle"
  /\ last' = [last EXCEPT ![r] = [req |-> req[r], res |-> Lookup(namespace, req[r].name)]]
  /\ pc' = [pc EXCEPT ![r] = "idle"]
  /\ req' = [req EXCEPT ![r] = NoRequest]
  /\ UNCHANGED namespace

\* The lookup completes: value or AttributeError goes straight to the caller.
Return(r) ==
  /\ pc[r] = "calling"
  /\ last' = [last EXCEPT ![r] = [req |-> req[r], res |-> Lookup(namespace, req[r].name)]]
  /\ pc' = [pc EXCEPT ![r] = "idle"]
  /\ req' = [req EXCEPT ![r] = NoRequest]
  /\ UNCHANGED namespace

Next ==
  \/ \E r \in Readers, name \in Names : CallGet(r, name)
  \/ \E r \in Readers : CallList(r)
  \/ \E r \in Readers : Return(r)

Spec == Init /\ [][Next]_vars

\* ================================================================ properties
\* The names the specification document gives to the three detectors.
SpecNames == { "generic_flat", "medipix_256x256", "medipix_515x515" }

\* The names the package exports, written out.
ClassNames ==
  { "GenericFlatDetector", "Medipix256x256Detector", "Medipix515x515Detector" }

\* The submodule names bound in the package by the three imports.
SubmoduleNames == { "generic_flat_detector", "medipix_256x256", "medipix_515x515" }

\* Every name that resolves on the package.
BoundNames == ClassNames \cup SubmoduleNames \cup { "__all__", "__doc__" }

Range(seq) == { seq[i] : i \in 1..Len(seq) }

DoneGet(r) == last[r].req.op = "get"
DoneList(r) == last[r].req.op = "list"
Failed(r) == last[r].res.kind = "AttributeError"

\* ---- C1
\* C1 (as stated): every get of a name outside {"generic_flat",
\* "medipix_256x256", "medipix_515x515"} fails with the unknown-name error.
C1_Original ==
  \A r \in Readers :
    (DoneGet(r) /\ last[r].req.name \notin SpecNames) => Failed(r)

\* C1 (amended): every get of a name outside the names the package binds (the
\* three class names, the three submodule names, __all__, __doc__) fails with
\* AttributeError carrying that name; the caller has the error as soon as the
\* lookup step completes (it is idle again, nothing is pending or re-issued)
\* and no detector, module, list or default value is handed back.
C1_UnknownNameFails ==
  \A r \in Readers :
    (DoneGet(r) /\ last[r].req.name \notin BoundNames) =>
      /\ last[r].res = AttributeError(last[r].req.name)
      /\ last[r].res.kind \notin { "class", "module", "list", "str", "None" }
      /\ (pc[r] = "idle" => req[r] = NoRequest)

C1_Witness ==
  \E r \in Readers :
    /\ last[r].req = GetReq("nonexistent_detector")
    /\ Failed(r)
    /\ pc[r] = "idle"

\* ---- C3
\* C3 (as stated): the listing returns exactly "generic_flat",
\* "medipix_256x256", "medipix_515x515".
C3_Original ==
  \A r \in Readers :
    DoneList(r) =>
      last[r].res.items = << "generic_flat", "medipix_256x256", "medipix_515x515" >>

\* C3 (amended): the listing returns exactly the three names
\* "GenericFlatDetector", "Medipix256x256Detector", "Medipix515x515Detector",
\* in that order on every call, with no other name and no duplicates.
C3_Listing ==
  \A r \in Readers :
    DoneList(r) =>
      /\ last[r].res.kind = "list"
      /\ last[r].res.items =
           << "GenericFlatDetector", "Medipix256x256Detector", "Medipix515x515Detector" >>
      /\ Cardinality(Range(last[r].res.items)) = Len(last[r].res.items)
      /\ \A q \in Readers : DoneList(q) => last[q].res.items = last[r].res.items

C3_Witness ==
  \E r, q \in Readers :
    /\ r # q
    /\ DoneList(r)
    /\ DoneList(q)
    /\ Len(last[r].res.items) = 3

\* ---- C4
\* C4: get is idempotent. Whenever a reader completes get(name), its result
\* equals the result of every earlier completed get of the same name, by the
\* same reader or by another one, whatever calls came in between.
C4_Idempotent ==
  [][ \A r \in Readers :
        (pc[r] = "calling" /\ pc'[r] = "idle" /\ req[r].op = "get") =>
          \A q \in Readers :
            last[q].req = req[r] => last'[r].res = last[q].res ]_vars

C4_Witness ==
  \E r, q \in Readers :
    /\ r # q
    /\ last[r].req = GetReq("Medipix256x256Detector")
    /\ last[q].req = GetReq("Medipix256x256Detector")
    /\ last[r].res.kind = "class"
    /\ last[r].res = last[q].res

\* ---- C5
\* C5: the registry table and everything bound in it stay as they were when
\* the package body finished: no get, listing or failed lookup changes,
\* adds or removes a binding.
C5_ReadOnly ==
  /\ namespace = PackageNamespace
  /\ DOMAIN namespace = BoundNames

C5_Witness ==
  \E r, q \in Readers :
    /\ DoneGet(r) /\ Failed(r)
    /\ DoneList(q)
    /\ namespace["Medipix515x515Detector"].kind = "class"

\* ---- C8
\* C8: readers need no synchronisation. A reader that is calling can always
\* complete, and an idle reader can always start a call, whatever the other
\* readers are doing; and every completed call has the result the same call
\* gives a reader running alone on the freshly imported package.
C8_ConcurrentReaders ==
  \A r \in Readers :
    /\ pc[r] = "calling" => ENABLED Return(r)
    /\ pc[r] = "idle" => (ENABLED CallList(r) /\ ENABLED CallGet(r, "GenericFlatDetector"))
    /\ last[r].req.op # "none" =>
         last[r].res = Lookup(PackageNamespace, last[r].req.name)

C8_Witness ==
  \E r, q \in Readers :
    /\ r # q
    /\ pc[r] = "calling"
    /\ pc[q] = "calling"
    /\ last[r].req.op = "get"

\* ---- C10
\* C10 (as stated): get(name) succeeds exactly when name is in the listing.
C10_Original ==
  \A r \in Readers :
    DoneGet(r) =>
      (~Failed(r) <=> last[r].req.name \in Range(namespace["__all__"].items))

\* C10 (amended): get(name) returns a detector class exactly when name is in
\* the listing; every listed name is bound to one detector class of its own
\* and no detector class is bound under a name absent from the listing. The
\* other names that resolve (the submodules, __all__, __doc__) are not
\* detector classes.
C10_ListingMatchesLookup ==
  /\ \A r \in Readers :
       DoneGet(r) =>
         (last[r].res.kind = "class" <=>
            last[r].req.name \in Range(namespace["__all__"].items))
  /\ \A n \in Range(namespace["__all__"].items) :
       /\ n \in DOMAIN namespace
       /\ namespace[n].kind = "class"
       /\ namespace[n].id = n
  /\ \A n \in DOMAIN namespace :
       namespace[n].kind = "class" => n \in Range(namespace["__all__"].items)
  /\ Cardinality(Range(namespace["__all__"].items)) = Len(namespace["__all__"].items)

C10_Witness ==
  \E r, q \in Readers :
    /\ last[r].req = GetReq("Medipix515x515Detector")
    /\ last[r].res.kind = "class"
    /\ last[q].req = GetReq("medipix_515x515")
    /\ last[q].res.kind = "module"

====
